---- MODULE Spec2Model ----
(***************************************************************************)
(* wickedd: the daemon's control plane (src/wickedd.c).                    *)
(*                                                                         *)
(* Process 0 is the daemon.  Process c (c >= 1) is the worker forked for   *)
(* connection c.  Every process has its own program counter, its own       *)
(* connection handles and its own handler locals, as after fork().         *)
(***************************************************************************)
EXTENDS Integers, Sequences, FiniteSets, TLC

(* ------------------------------ bounds --------------------------------- *)
MaxConns == 2
MaxEvents == 1
MaxArgs == 2
MaxEventKind == 6

(* ------------------------- program constants --------------------------- *)
NI_EVENT_LINK_CREATE == 0
NI_EVENT_LINK_DELETE == 1
NI_EVENT_LINK_UP == 2
NI_EVENT_LINK_DOWN == 3
NI_EVENT_NETWORK_UP == 4
NI_EVENT_NETWORK_DOWN == 5
NI_EVENT_MAX == 6
ROOT_UID == 0

Daemon == 0
Conns == 1 .. MaxConns
Procs == 0 .. MaxConns
Uids == {0, 1000}
EventKinds == 0 .. MaxEventKind
IfNames == {"eth0"}
OptionInputs == {"config", "debug_help", "debug_bad", "debug_ok",
                 "foreground", "nofork", "unknown"}

VARIABLES
    pc,              \* pc[p]: position of process p
    opt_foreground,  \* static int opt_foreground
    opt_nofork,      \* static int opt_nofork
    nargs,           \* option arguments getopt_long has not read yet
    optc,            \* main's c: what getopt_long returned last
    exitcode,        \* <<>> while main has not returned, else <<code>>
    sock,            \* main's sock: "unset", "NULL" or "SOCK"
    accept_cb,       \* sock->accept has been set
    event_cb,        \* the event callback is registered
    cur,             \* cur[p]: the connection the acceptor of p is working on
    fd,              \* fd[p][c]: p's handle to connection c
    caller,          \* caller[p]: how the request handler was entered in p
    req,             \* req[p]: the handler's locals in p (req and rv)
    aret,            \* aret[p]: <<>> or <<value returned by the acceptor>>
    conn,            \* conn[c]: what has happened to connection c
    ndelivered,      \* connections delivered to an acceptor so far
    ev,              \* ev[p]: locals of wicked_interface_event in p
    nevents,         \* kernel events delivered so far
    policies,        \* the policy store (ni_default_policies())
    ifstate          \* version of the system's interface state

vars == <<pc, opt_foreground, opt_nofork, nargs, optc, exitcode, sock,
          accept_cb, event_cb, cur, fd, caller, req, aret, conn, ndelivered, ev,
          nevents,
          policies, ifstate>>

startupVars == <<opt_foreground, opt_nofork, nargs, optc, exitcode, sock,
                 accept_cb, event_cb>>
connVars == <<cur, fd, caller, req, aret, conn, ndelivered>>
eventVars == <<ev, nevents>>
worldVars == <<policies, ifstate>>

Terminal == {"exited", "fatal", "crashed"}
StartupPcs == {"getopt", "ni_init", "optind", "listen", "set_accept",
               "listen_events", "background"}
AcceptorPcs == {"a_uid", "a_done", "a_ret"}
HandlerPcs == {"h_run"}
PipelinePcs == {"ev_run", "ev_ret"}

(* ------------------------------ policies ------------------------------- *)
\* A policy: the event types its predicate accepts, and its action.
PolicyUpDown == [accepts |-> {"link-up", "link-down"}, action |-> "restart"]
PolicyDown == [accepts |-> {"link-down"}, action |-> "shutdown"]
PolicyStores == { <<>>, <<PolicyDown, PolicyUpDown>> }

(* ------------------------------- records ------------------------------- *)
NoConn == [delivered |-> FALSE, uid |-> 0, path |-> "none", invoked |-> 0,
           by |-> {}, forks |-> 0, responses |-> 0]

\* The handler's locals before the handler has run: what it called so far,
\* the result of the parse, and the rv given to the response.
NoReq == [parsed |-> 0, parse_rv |-> 0, called |-> 0, call_rv |-> 0,
          printed |-> 0, resp_rv |-> 0]

\* The locals of wicked_interface_event before it has run, with the
\* stages it went through and the policies it applied.
NoEvent == [kind |-> 0, ifname |-> "", evnode |-> "NULL", evtag |-> "",
            evattr |-> "",
            child |-> FALSE, ifnode |-> "NULL", ifactions |-> <<>>,
            policy |-> 0, restpath |-> "", stages |-> <<>>,
            applied |-> <<>>]

NoHandles == [c \in Conns |-> "none"]

\* Process termination closes every handle the process holds.
CloseAll(h) == [c \in Conns |-> IF h[c] = "open" THEN "closed" ELSE h[c]]

Init ==
    /\ pc = [p \in Procs |-> IF p = Daemon THEN "getopt" ELSE "none"]
    /\ opt_foreground = 0
    /\ opt_nofork = 0
    /\ nargs \in 0 .. MaxArgs
    /\ optc = "none"
    /\ exitcode = <<>>
    /\ sock = "unset"
    /\ accept_cb = FALSE
    /\ event_cb = FALSE
    /\ cur = [p \in Procs |-> 0]
    /\ fd = [p \in Procs |-> NoHandles]
    /\ caller = [p \in Procs |-> "none"]
    /\ req = [p \in Procs |-> NoReq]
    /\ aret = [p \in Procs |-> <<>>]
    /\ conn = [c \in Conns |-> NoConn]
    /\ ndelivered = 0
    /\ ev = [p \in Procs |-> NoEvent]
    /\ nevents = 0
    /\ policies \in PolicyStores
    /\ ifstate = 0

(* ------------------------------ main ----------------------------------- *)
\* main returns `code`.
Return(code) ==
    /\ pc' = [pc EXCEPT ![Daemon] = "exited"]
    /\ exitcode' = <<code>>

\* One iteration of the getopt_long loop.
GetOpt ==
    /\ pc[Daemon] = "getopt"
    /\ \E o \in IF nargs = 0 THEN {"EOF"} ELSE OptionInputs :
         /\ nargs' = IF o = "EOF" THEN nargs ELSE nargs - 1
         /\ optc' = o
         /\ opt_foreground' = IF o = "foreground" THEN 1 ELSE opt_foreground
         /\ opt_nofork' = IF o = "nofork" THEN 1 ELSE opt_nofork
         /\ CASE o = "EOF" -> pc' = [pc EXCEPT ![Daemon] = "ni_init"]
                               /\ UNCHANGED exitcode
              [] o \in {"unknown", "debug_bad"} -> Return(1)
              [] o = "debug_help" -> Return(0)
              [] OTHER -> UNCHANGED <<pc, exitcode>>
    /\ UNCHANGED <<sock, accept_cb, event_cb, connVars, eventVars, worldVars>>

NiInit ==
    /\ pc[Daemon] = "ni_init"
    /\ \E r \in {-1, 0} :
         IF r < 0 THEN Return(1)
         ELSE pc' = [pc EXCEPT ![Daemon] = "optind"] /\ UNCHANGED exitcode
    /\ UNCHANGED <<opt_foreground, opt_nofork, nargs, optc,
                   sock, accept_cb,
                   event_cb, connVars, eventVars, worldVars>>

CheckOptind ==
    /\ pc[Daemon] = "optind"
    /\ \E leftover \in BOOLEAN :
         IF leftover THEN Return(1)
         ELSE pc' = [pc EXCEPT ![Daemon] = "listen"] /\ UNCHANGED exitcode
    /\ UNCHANGED <<opt_foreground, opt_nofork, nargs, optc,
                   sock, accept_cb,
                   event_cb, connVars, eventVars, worldVars>>

\* `ptr < 0`: an ordered comparison of a pointer with the null pointer
\* constant; no pointer, null or not, is below it.
PtrBelowZero(s) == FALSE

\* sock = ni_server_listen(); if (sock < 0) ni_fatal(...)
Listen ==
    /\ pc[Daemon] = "listen"
    /\ \E s \in {"NULL", "SOCK"} :
         /\ sock' = s
         /\ pc' = [pc EXCEPT ![Daemon] =
                     IF PtrBelowZero(s) THEN "fatal" ELSE "set_accept"]
    /\ UNCHANGED <<opt_foreground, opt_nofork, nargs, optc,
                   exitcode, accept_cb,
                   event_cb, connVars, eventVars, worldVars>>

\* sock->accept = wicked_accept_connection, on a socket that exists.
SetAccept ==
    /\ pc[Daemon] = "set_accept"
    /\ sock = "SOCK"
    /\ accept_cb' = TRUE
    /\ pc' = [pc EXCEPT ![Daemon] = "listen_events"]
    /\ UNCHANGED <<opt_foreground, opt_nofork, nargs, optc,
                   exitcode, sock,
                   event_cb, connVars, eventVars, worldVars>>

\* The same store through a null pointer: undefined behaviour.  The process
\* is killed by the store, or the store lands somewhere and main goes on.
SetAcceptNull ==
    /\ pc[Daemon] = "set_accept"
    /\ sock = "NULL"
    /\ \E outcome \in {"segv", "continue"} :
         pc' = [pc EXCEPT ![Daemon] =
                  IF outcome = "segv" THEN "crashed" ELSE "listen_events"]
    /\ UNCHANGED <<opt_foreground, opt_nofork, nargs, optc,
                   exitcode, sock,
                   accept_cb, event_cb, connVars, eventVars, worldVars>>

ListenEvents ==
    /\ pc[Daemon] = "listen_events"
    /\ \E r \in {-1, 0} :
         /\ event_cb' = (r >= 0)
         /\ pc' = [pc EXCEPT ![Daemon] =
                     IF r < 0 THEN "fatal" ELSE "background"]
    /\ UNCHANGED <<opt_foreground, opt_nofork, nargs, optc,
                   exitcode, sock,
                   accept_cb, connVars, eventVars, worldVars>>

Background ==
    /\ pc[Daemon] = "background"
    /\ IF opt_foreground = 0
       THEN \E r \in {-1, 0} :
              IF r < 0 THEN Return(1)
              ELSE pc' = [pc EXCEPT ![Daemon] = "wait"] /\ UNCHANGED exitcode
       ELSE pc' = [pc EXCEPT ![Daemon] = "wait"] /\ UNCHANGED exitcode
    /\ UNCHANGED <<opt_foreground, opt_nofork, nargs, optc,
                   sock, accept_cb,
                   event_cb, connVars, eventVars, worldVars>>

\* A wait that is entered again from inside the event callback.
InSocketWaitOrCallback(at) == at \in {"wait", "ev_run"}

\* The process is inside ni_socket_wait(-1), the one place from which the
\* socket layer calls the accept and event callbacks.
InSocketWait(at) == at = "wait"

\* ni_socket_wait(-1) < 0: ni_fatal.
WaitFail(p) ==
    /\ InSocketWait(pc[p])
    /\ pc' = [pc EXCEPT ![p] = "fatal"]
    /\ fd' = [fd EXCEPT ![p] = CloseAll(fd[p])]
    /\ UNCHANGED <<startupVars, cur, caller, req, aret, conn, ndelivered,
                   eventVars, worldVars>>

(* ------------------- wicked_accept_connection -------------------------- *)
\* The socket layer accepted a connection on the listening socket and calls
\* sock->accept(sock, uid, gid) in process p.
DeliverConn(p) ==
    /\ InSocketWait(pc[p])
    /\ sock = "SOCK" /\ accept_cb
    /\ ndelivered < MaxConns
    /\ \E u \in Uids :
         LET c == ndelivered + 1 IN
         /\ conn' = [conn EXCEPT ![c] = [NoConn EXCEPT !.delivered = TRUE,
                                                        !.uid = u]]
         /\ fd' = [fd EXCEPT ![p][c] = "open"]
         /\ cur' = [cur EXCEPT ![p] = c]
    /\ ndelivered' = ndelivered + 1
    /\ pc' = [pc EXCEPT ![p] = "a_uid"]
    /\ UNCHANGED <<startupVars, caller, req, aret, eventVars, worldVars>>

\* The test written as a signed comparison, which no uid satisfies.
RefuseUidBelow(uid) == uid < ROOT_UID

\* if (uid != 0)
RefuseUid(uid) == uid # ROOT_UID

\* One of the acceptor's returns hands back 0, "keep the socket".
AcceptKeepsRefused(path) == IF path = "refused" THEN 0 ELSE -1
AcceptKeepsForkFail(path) == IF path = "forkfail" THEN 0 ELSE -1
AcceptKeepsDone(path) == IF path = "done" THEN 0 ELSE -1

\* The three `return -1` of the acceptor: after refusing the caller, after
\* a failed fork, and at the end of the function.
AcceptReturnValue(path) == -1

\* A failed fork treated as fatal (ni_fatal in place of ni_error).
ForkFailFatal == "fatal"

\* Where the acceptor goes when fork() fails: ni_error, then return.
ForkFailPc == "a_ret"

\* if (uid != 0) { ni_error(...); return -1; }
AcceptRefuse(p) ==
    /\ pc[p] = "a_uid"
    /\ RefuseUid(conn[cur[p]].uid)
    /\ aret' = [aret EXCEPT ![p] = <<AcceptReturnValue("refused")>>]
    /\ conn' = [conn EXCEPT ![cur[p]].path = "refused"]
    /\ pc' = [pc EXCEPT ![p] = "a_ret"]
    /\ UNCHANGED <<startupVars, cur, fd, caller, req, ndelivered, eventVars,
                   worldVars>>

\* The test of the mode flag the wrong way round.
InlineInverted(flag) == flag = 0

\* if (opt_nofork): the handler is called inline, else a worker is forked.
Inline(flag) == flag # 0

\* if (opt_nofork) wicked_process_network_restcall(sock);
AcceptInline(p) ==
    /\ pc[p] = "a_uid"
    /\ ~RefuseUid(conn[cur[p]].uid)
    /\ Inline(opt_nofork)
    /\ conn' = [conn EXCEPT ![cur[p]].path = "inline",
                            ![cur[p]].invoked = @ + 1,
                            ![cur[p]].by = @ \cup {p}]
    /\ caller' = [caller EXCEPT ![p] = "inline"]
    /\ pc' = [pc EXCEPT ![p] = "h_run"]
    /\ UNCHANGED <<startupVars, cur, fd, req, aret, ndelivered, eventVars,
                   worldVars>>

\* pid = fork(), and it fails.
AcceptForkFail(p) ==
    /\ pc[p] = "a_uid"
    /\ ~RefuseUid(conn[cur[p]].uid)
    /\ ~Inline(opt_nofork)
    /\ conn' = [conn EXCEPT ![cur[p]].path = "forkfail"]
    /\ aret' = [aret EXCEPT ![p] = <<AcceptReturnValue("forkfail")>>]
    /\ pc' = [pc EXCEPT ![p] = ForkFailPc]
    /\ fd' = IF ForkFailPc \in Terminal
             THEN [fd EXCEPT ![p] = CloseAll(fd[p])] ELSE fd
    /\ UNCHANGED <<startupVars, cur, caller, req, ndelivered, eventVars,
                   worldVars>>

\* pid = fork(), and it succeeds.  The child, process cur[p], is a copy of p
\* that sees pid == 0 and enters the handler; p goes on to the last return.
AcceptFork(p) ==
    /\ pc[p] = "a_uid"
    /\ ~RefuseUid(conn[cur[p]].uid)
    /\ ~Inline(opt_nofork)
    /\ LET c == cur[p] IN
       /\ pc[c] = "none"
       /\ conn' = [conn EXCEPT ![c].path = "forked",
                               ![c].forks = @ + 1,
                               ![c].invoked = @ + 1,
                               ![c].by = @ \cup {c}]
       /\ pc' = [pc EXCEPT ![p] = "a_done", ![c] = "h_run"]
       /\ fd' = [fd EXCEPT ![c] = fd[p]]
       /\ cur' = [cur EXCEPT ![c] = c]
       /\ caller' = [caller EXCEPT ![c] = "child"]
       /\ req' = [req EXCEPT ![c] = req[p]]
       /\ aret' = [aret EXCEPT ![c] = aret[p]]
       /\ ev' = [ev EXCEPT ![c] = ev[p]]
    /\ UNCHANGED <<startupVars, ndelivered, nevents, worldVars>>

\* return -1 at the end of the acceptor.
AcceptDone(p) ==
    /\ pc[p] = "a_done"
    /\ aret' = [aret EXCEPT ![p] = <<AcceptReturnValue("done")>>]
    /\ pc' = [pc EXCEPT ![p] = "a_ret"]
    /\ UNCHANGED <<startupVars, cur, fd, caller, req, conn, ndelivered,
                   eventVars, worldVars>>

\* "Return value of -1 means close the socket."
HandleAfterAccept(r) == IF r = -1 THEN "closed" ELSE "open"

\* The acceptor has returned to the socket layer, which acts on the value
\* and goes back to the wait loop.
AcceptReturn(p) ==
    /\ pc[p] = "a_ret"
    /\ fd' = [fd EXCEPT ![p][cur[p]] = HandleAfterAccept(aret[p][1])]
    /\ cur' = [cur EXCEPT ![p] = 0]
    /\ aret' = [aret EXCEPT ![p] = <<>>]
    /\ caller' = [caller EXCEPT ![p] = "none"]
    /\ req' = [req EXCEPT ![p] = NoReq]
    /\ pc' = [pc EXCEPT ![p] = "wait"]
    /\ UNCHANGED <<startupVars, conn, ndelivered, eventVars, worldVars>>

(* ---------------- wicked_process_network_restcall ---------------------- *)
\* The handler returning early on a parse failure, without a response.
HandlerCallsDrop(parse_rv) ==
    IF parse_rv >= 0 THEN <<"parse", "call", "print", "destroy">>
    ELSE <<"parse", "destroy">>

\* The calls the handler makes, given the result of the parse:
\* init and parse; the direct call if (rv >= 0); the response; destroy.
HandlerCalls(parse_rv) ==
    IF parse_rv >= 0 THEN <<"parse", "call", "print", "destroy">>
    ELSE <<"parse", "print", "destroy">>

\* The response always carrying the result slot of the direct call.
HandlerRvOfCall(parse_rv, call_rv) == call_rv

\* The rv handed to ni_wicked_response_print.
HandlerRv(parse_rv, call_rv) == IF parse_rv >= 0 THEN call_rv ELSE parse_rv

\* The child without its exit(0): it falls through to the last return.
AfterHandlerNoExit(how) == "a_done"

\* The inline handler going straight back to the wait loop, past the
\* acceptor's return.
AfterHandlerToWait(how) == IF how = "child" THEN "w_exit" ELSE "wait"

\* What follows the handler's return: exit(0) in the forked child, the
\* acceptor's last return when the handler ran inline.
AfterHandlerPc(how) == IF how = "child" THEN "w_exit" ELSE "a_done"

\* ni_wicked_request_parse: a negative error code, or success.
ParseResults == {-2, 0}

\* ni_wicked_call_direct: a result code, and whether it changed the
\* system's interface state.
CallOutcomes == { [rv |-> -1, wrote |-> 0], [rv |-> 0, wrote |-> 0],
                  [rv |-> 0, wrote |-> 1] }

Count(calls, what) == Cardinality({i \in DOMAIN calls : calls[i] = what})

\* wicked_process_network_restcall(sock) in process p, from entry to return.
Handler(p) ==
    /\ pc[p] = "h_run"
    /\ \E parse_rv \in ParseResults, o \in CallOutcomes :
         LET calls == HandlerCalls(parse_rv)
             c == cur[p]
         IN /\ req' = [req EXCEPT
                         ![p].parsed = @ + Count(calls, "parse"),
                         ![p].parse_rv = parse_rv,
                         ![p].called = @ + Count(calls, "call"),
                         ![p].call_rv = IF Count(calls, "call") > 0
                                        THEN o.rv ELSE @,
                         ![p].printed = @ + Count(calls, "print"),
                         ![p].resp_rv = IF Count(calls, "print") > 0
                                        THEN HandlerRv(parse_rv, o.rv) ELSE @]
            /\ conn' = [conn EXCEPT
                          ![c].responses = @ + Count(calls, "print")]
            /\ ifstate' = IF Count(calls, "call") > 0
                          THEN ifstate + o.wrote ELSE ifstate
    /\ pc' = [pc EXCEPT ![p] = AfterHandlerPc(caller[p])]
    /\ UNCHANGED <<startupVars, cur, fd, caller, aret, ndelivered, eventVars,
                   policies>>

\* exit(0) in the worker.
WorkerExit(p) ==
    /\ pc[p] = "w_exit"
    /\ pc' = [pc EXCEPT ![p] = "exited"]
    /\ fd' = [fd EXCEPT ![p] = CloseAll(fd[p])]
    /\ cur' = [cur EXCEPT ![p] = 0]
    /\ caller' = [caller EXCEPT ![p] = "none"]
    /\ req' = [req EXCEPT ![p] = NoReq]
    /\ UNCHANGED <<startupVars, aret, conn, ndelivered, eventVars, worldVars>>

(* --------------------- wicked_interface_event -------------------------- *)
\* The table with the initializer of NI_EVENT_LINK_DOWN repeating the name
\* of NI_EVENT_LINK_UP.
evtypeRepeated == [k \in 0 .. NI_EVENT_MAX - 1 |->
                     CASE k = NI_EVENT_LINK_CREATE -> "link-create"
                       [] k = NI_EVENT_LINK_DELETE -> "link-delete"
                       [] k = NI_EVENT_LINK_UP -> "link-up"
                       [] k = NI_EVENT_LINK_DOWN -> "link-up"
                       [] k = NI_EVENT_NETWORK_UP -> "network-up"
                       [] k = NI_EVENT_NETWORK_DOWN -> "network-down"
                       [] OTHER -> ""]

\* static const char *evtype[__NI_EVENT_MAX]; a slot without an initializer
\* is a null pointer, written "".
evtype == [k \in 0 .. NI_EVENT_MAX - 1 |->
             CASE k = NI_EVENT_LINK_CREATE -> "link-create"
               [] k = NI_EVENT_LINK_DELETE -> "link-delete"
               [] k = NI_EVENT_LINK_UP -> "link-up"
               [] k = NI_EVENT_LINK_DOWN -> "link-down"
               [] k = NI_EVENT_NETWORK_UP -> "network-up"
               [] k = NI_EVENT_NETWORK_DOWN -> "network-down"
               [] OTHER -> ""]

\* evtype[event]; a read past the table yields whatever lies there.
EvTypeAt(event) == IF event \in DOMAIN evtype THEN evtype[event] ELSE "?"

\* The range test off by one: event > __NI_EVENT_MAX.
EventKnownOffByOne(event) == ~(event > NI_EVENT_MAX \/ EvTypeAt(event) = "")

\* The negation of: event >= __NI_EVENT_MAX || !evtype[event]
EventKnown(event) == ~(event >= NI_EVENT_MAX \/ EvTypeAt(event) = "")

\* ni_policy_match_event(store, evnode): the first policy, in store order,
\* whose predicate accepts the document; 0 when there is none.
ni_policy_match_event(store, type) ==
    LET hits == {i \in 1 .. Len(store) : type \in store[i].accepts}
    IN IF hits = {} THEN 0
       ELSE CHOOSE i \in hits : \A j \in hits : i <= j

\* snprintf(restpath, sizeof(restpath), "/system/interface/%s", ifp->name)
RestPath(name) == "/system/interface/" \o name

\* After a successful transform the matcher is asked, and the policy
\* applied, once more.
PipelineStagesRematch(known, ser, m, r) ==
    IF ~known THEN <<"filter">>
    ELSE IF ser = "NULL" THEN <<"filter", "build", "serialize", "free">>
    ELSE IF m = 0
         THEN <<"filter", "build", "serialize", "attach", "match", "free">>
    ELSE IF r < 0
         THEN <<"filter", "build", "serialize", "attach", "match", "apply",
                "free">>
    ELSE <<"filter", "build", "serialize", "attach", "match", "apply",
           "match", "apply", "path", "free">>

\* A serialization miss that returns at once instead of going to `out`.
PipelineStagesLeak(known, ser, m, r) ==
    IF ~known THEN <<"filter">>
    ELSE IF ser = "NULL" THEN <<"filter", "build", "serialize">>
    ELSE IF m = 0
         THEN <<"filter", "build", "serialize", "attach", "match", "free">>
    ELSE IF r < 0
         THEN <<"filter", "build", "serialize", "attach", "match", "apply",
                "free">>
    ELSE <<"filter", "build", "serialize", "attach", "match", "apply",
           "path", "free">>

\* A failed transform that still goes on to derive the path.
PipelineStagesPathOnFailure(known, ser, m, r) ==
    IF ~known THEN <<"filter">>
    ELSE IF ser = "NULL" THEN <<"filter", "build", "serialize", "free">>
    ELSE IF m = 0
         THEN <<"filter", "build", "serialize", "attach", "match", "free">>
    ELSE <<"filter", "build", "serialize", "attach", "match", "apply",
           "path", "free">>

\* The stages wicked_interface_event goes through, in order, given whether
\* the filter lets the kind pass, what serialization yields (ser), the
\* policy the matcher returns (m, 0 for none) and the transform's result
\* (r): the early return, the three `goto out`, and the full path.
PipelineStages(known, ser, m, r) ==
    IF ~known THEN <<"filter">>
    ELSE IF ser = "NULL" THEN <<"filter", "build", "serialize", "free">>
    ELSE IF m = 0
         THEN <<"filter", "build", "serialize", "attach", "match", "free">>
    ELSE IF r < 0
         THEN <<"filter", "build", "serialize", "attach", "match", "apply",
                "free">>
    ELSE <<"filter", "build", "serialize", "attach", "match", "apply",
           "path", "free">>

\* The final submission made live: one call into the network-state library
\* for an event whose path was derived.
RestCallLive(stages) == Count(stages, "path")

\* /* wicked_rest_call(policy->action, restpath, ifnode); */  The writes to
\* the system's interface state made by the final submission: the call is
\* commented out.
RestCallWrites(stages) == 0

\* The netlink listener read a kernel event and calls the event callback
\* in process p.
DeliverEvent(p) ==
    /\ InSocketWait(pc[p])
    /\ event_cb
    /\ nevents < MaxEvents
    /\ \E k \in EventKinds, n \in IfNames :
         ev' = [ev EXCEPT ![p] = [NoEvent EXCEPT !.kind = k, !.ifname = n]]
    /\ nevents' = nevents + 1
    /\ pc' = [pc EXCEPT ![p] = "ev_run"]
    /\ UNCHANGED <<startupVars, connVars, worldVars>>

\* wicked_interface_event(nih, ifp, event) in process p, from entry to
\* return.  evnode and ifnode are "NULL", "live" or "freed"; freeing evnode
\* frees the child attached to it.
InterfaceEvent(p) ==
    /\ pc[p] = "ev_run"
    /\ \E ser \in {"NULL", "live"}, r \in {-1, 0} :
         LET e == ev[p]
             known == EventKnown(e.kind)
             type == IF known THEN EvTypeAt(e.kind) ELSE ""
             m == IF known /\ ser # "NULL"
                  THEN ni_policy_match_event(policies, type) ELSE 0
             st == PipelineStages(known, ser, m, r)
             has(x) == Count(st, x) > 0
         IN /\ ifstate' = ifstate + RestCallWrites(st)
            /\ ev' = [ev EXCEPT ![p] =
              [e EXCEPT
                 !.stages = st,
                 !.evtag = IF has("build") THEN "event" ELSE "",
                 !.evattr = IF has("build") THEN type ELSE "",
                 !.evnode = IF ~has("build") THEN "NULL"
                            ELSE IF has("free") THEN "freed" ELSE "live",
                 !.child = has("attach"),
                 !.ifnode = IF ~has("serialize") THEN "NULL"
                            ELSE IF ser = "NULL" THEN "NULL"
                            ELSE IF has("attach") /\ has("free")
                                 THEN "freed" ELSE "live",
                 !.policy = IF has("match") THEN m ELSE 0,
                 !.applied = [i \in 1 .. Count(st, "apply") |-> m],
                 !.ifactions = IF r < 0 THEN <<>>
                               ELSE [i \in 1 .. Count(st, "apply") |->
                                       policies[m].action],
                 !.restpath = IF has("path") THEN RestPath(e.ifname)
                              ELSE ""]]
    /\ pc' = [pc EXCEPT ![p] = "ev_ret"]
    /\ UNCHANGED <<startupVars, connVars, nevents, policies>>

\* The event callback has returned; back to the wait loop.
EvReturn(p) ==
    /\ pc[p] = "ev_ret"
    /\ ev' = [ev EXCEPT ![p] = NoEvent]
    /\ pc' = [pc EXCEPT ![p] = "wait"]
    /\ UNCHANGED <<startupVars, connVars, nevents, worldVars>>

(* --------------------------- specification ----------------------------- *)
\* The steps a scheduled process takes on its own.
Run(p) ==
    \/ AcceptRefuse(p) \/ AcceptInline(p) \/ AcceptForkFail(p)
    \/ AcceptFork(p) \/ AcceptDone(p) \/ AcceptReturn(p)
    \/ Handler(p) \/ WorkerExit(p)
    \/ InterfaceEvent(p) \/ EvReturn(p)

Next ==
    \/ GetOpt \/ NiInit \/ CheckOptind \/ Listen \/ SetAccept
    \/ SetAcceptNull \/ ListenEvents \/ Background
    \/ \E p \in Procs :
         \/ WaitFail(p) \/ DeliverConn(p) \/ DeliverEvent(p)
         \/ AcceptRefuse(p) \/ AcceptInline(p) \/ AcceptForkFail(p)
         \/ AcceptFork(p) \/ AcceptDone(p) \/ AcceptReturn(p)
         \/ Handler(p) \/ WorkerExit(p)
         \/ InterfaceEvent(p) \/ EvReturn(p)

Spec == Init /\ [][Next]_vars

\* A process that is inside a handler keeps being scheduled until the
\* handler is over; arrivals and failures of the wait are up to the world.
FairSpec == Spec /\ \A p \in Procs : WF_vars(Run(p))

(* ------------------------------ claims --------------------------------- *)
LoopPcs == {"wait"} \cup AcceptorPcs \cup HandlerPcs \cup PipelinePcs

\* Process p is inside the acceptor or the handler for connection c.
WorkingOn(p, c) ==
    cur[p] = c /\ pc[p] \in AcceptorPcs \cup HandlerPcs \cup {"w_exit"}

\* Nothing more will happen to connection c: no process is working on it
\* and no process holds it open.
Finished(c) ==
    /\ conn[c].delivered
    /\ \A p \in Procs : ~WorkingOn(p, c) /\ fd[p][c] # "open"

\* C1 (Reject-non-root): for a connection delivered with uid != 0 the
\* handler is never invoked (no fork, no parse, no dispatch, no response),
\* the acceptor goes straight from the uid test to returning -1, and no
\* process keeps the connection open once the acceptor is left.
C1_RejectNonRoot ==
    \A c \in Conns :
      (conn[c].delivered /\ conn[c].uid # 0) =>
        /\ conn[c].invoked = 0 /\ conn[c].forks = 0 /\ conn[c].by = {}
        /\ conn[c].responses = 0
        /\ pc[c] = "none"
        /\ \A p \in Procs :
             IF cur[p] = c
             THEN /\ pc[p] \in {"a_uid", "a_ret"}
                  /\ pc[p] = "a_ret" => aret[p] = <<-1>>
                  /\ req[p] = NoReq
             ELSE fd[p][c] # "open"

C1_Witness ==
    \E c \in Conns :
      /\ conn[c].delivered /\ conn[c].uid = 1000
      /\ conn[c].path = "refused" /\ fd[Daemon][c] = "closed"

\* C2 as claimed (No-silent-drop): every connection delivered with uid = 0
\* has, once nothing more can happen to it, exactly one response, and never
\* has more than one.
C2_ExactlyOnePerRootConnection ==
    \A c \in Conns :
      /\ conn[c].responses <= 1
      /\ (Finished(c) /\ conn[c].uid = 0) => conn[c].responses = 1

\* C2 as amended: a connection with uid = 0 for which the handler was
\* entered (inline, or in a worker that fork produced) gets exactly one
\* response, also when parsing or dispatch fails; one whose fork failed
\* gets none; no connection ever gets two.
C2_ExactlyOnePerHandledConnection ==
    \A c \in Conns :
      /\ conn[c].responses <= 1
      /\ (Finished(c) /\ conn[c].uid = 0 /\ conn[c].path # "forkfail")
            => conn[c].responses = 1
      /\ conn[c].path = "forkfail" => conn[c].responses = 0
      /\ (pc[c] \in {"w_exit", "exited"} \/ (\E p \in Procs :
             cur[p] = c /\ pc[p] = "a_done" /\ conn[c].path = "inline"))
            => conn[c].responses = 1

\* A worker whose parse failed has written its response and is about to
\* exit; the daemon has closed its own handle.
C2_Witness ==
    \E c \in Conns :
      /\ conn[c].uid = 0 /\ conn[c].path = "forked"
      /\ pc[c] = "w_exit" /\ req[c].parse_rv < 0 /\ req[c].called = 0
      /\ conn[c].responses = 1 /\ fd[Daemon][c] = "closed"

\* C3 (Filter): for an event whose kind is outside the six known kinds the
\* handler goes through the filter and nothing else: no event document is
\* built, no snapshot is serialized, no policy is matched or applied, no
\* path is derived.
OutsideKnownSet(kind) ==
    kind \notin {NI_EVENT_LINK_CREATE, NI_EVENT_LINK_DELETE, NI_EVENT_LINK_UP,
                 NI_EVENT_LINK_DOWN, NI_EVENT_NETWORK_UP,
                 NI_EVENT_NETWORK_DOWN}

C3_Filter ==
    \A p \in Procs :
      (pc[p] \in PipelinePcs /\ OutsideKnownSet(ev[p].kind)) =>
        /\ pc[p] = "ev_ret" => ev[p].stages = <<"filter">>
        /\ \A i \in DOMAIN ev[p].stages :
             ev[p].stages[i] \notin {"build", "serialize", "attach", "match",
                                     "apply", "path"}
        /\ ev[p].evnode = "NULL" /\ ev[p].evattr = ""
        /\ ev[p].ifnode = "NULL" /\ ev[p].policy = 0
        /\ ev[p].applied = <<>> /\ ev[p].ifactions = <<>>
        /\ ev[p].restpath = ""

C3_Witness ==
    /\ pc[Daemon] = "ev_ret"
    /\ ev[Daemon].kind >= NI_EVENT_MAX
    /\ ev[Daemon].stages = <<"filter">>

\* C4 (At-most-one-action): for an event with a document, the matcher is
\* consulted at most once, at most one transform is applied, and the policy
\* applied is the one the matcher returned, which is the first policy in
\* store order that accepts the event's type.
C4_AtMostOneAction ==
    \A p \in Procs :
      (pc[p] \in PipelinePcs /\ Count(ev[p].stages, "build") > 0) =>
        /\ Count(ev[p].stages, "match") <= 1
        /\ Count(ev[p].stages, "apply") = Len(ev[p].applied)
        /\ Len(ev[p].applied) <= 1
        /\ Len(ev[p].ifactions) <= Len(ev[p].applied)
        /\ ev[p].applied # <<>> =>
             LET a == ev[p].applied[1] IN
             /\ Count(ev[p].stages, "match") = 1
             /\ a = ev[p].policy
             /\ a \in 1 .. Len(policies)
             /\ ev[p].evattr \in policies[a].accepts
             /\ \A j \in 1 .. a - 1 : ev[p].evattr \notin policies[j].accepts
             /\ \A i \in 1 .. Len(ev[p].ifactions) :
                  ev[p].ifactions[i] = policies[a].action

C4_Witness ==
    /\ pc[Daemon] = "ev_ret"
    /\ ev[Daemon].applied = <<1>>
    /\ ev[Daemon].ifactions = <<policies[1].action>>
    /\ Len(policies) = 2
    /\ Cardinality({i \in 1 .. Len(policies) :
                      ev[Daemon].evattr \in policies[i].accepts}) = 2

\* C5 (Worker-spawn failure): for a connection whose fork failed, the
\* handler is not invoked and nothing is written, no worker exists, the
\* acceptor is at its return with -1 (not terminated), and once it has
\* returned no process holds the connection open.
C5_SpawnFailure ==
    \A c \in Conns :
      conn[c].path = "forkfail" =>
        /\ conn[c].uid = 0 /\ opt_nofork = 0
        /\ conn[c].invoked = 0 /\ conn[c].by = {}
        /\ conn[c].responses = 0 /\ conn[c].forks = 0
        /\ pc[c] = "none"
        /\ \A p \in Procs :
             IF cur[p] = c
             THEN pc[p] = "a_ret" /\ aret[p] = <<-1>> /\ req[p] = NoReq
             ELSE fd[p][c] # "open"

\* A later connection is served after an earlier fork failed.
C5_Witness ==
    \E c, d \in Conns :
      /\ c < d
      /\ conn[c].path = "forkfail" /\ fd[Daemon][c] = "closed"
      /\ conn[d].path = "forked" /\ conn[d].responses = 1
      /\ pc[Daemon] = "wait"

\* C6: no connection stays open forever in any process: again and again,
\* for good once it is so, no process (daemon or worker) holds it open; and
\* a handle that was closed is never open again.
C6_EventuallyClosed ==
    /\ \A c \in Conns : []<>(\A p \in Procs : fd[p][c] # "open")
    /\ [][\A c \in Conns, p \in Procs :
            fd[p][c] = "closed" => fd'[p][c] = "closed"]_vars

C6_Witness ==
    \E c \in Conns :
      /\ conn[c].path = "forked"
      /\ fd[Daemon][c] = "closed" /\ fd[c][c] = "closed"
      /\ pc[c] = "exited" /\ pc[Daemon] = "wait"

\* C7: whenever the acceptor has returned, on any path, the value is -1;
\* the daemon holds a connection open only while its acceptor (or the
\* inline handler) is working on that connection, never in the wait loop
\* and never while it handles an event.
C7_AcceptorReturnsClose ==
    /\ \A p \in Procs : pc[p] = "a_ret" => aret[p] = <<-1>>
    /\ \A c \in Conns :
         fd[Daemon][c] = "open" =>
           /\ cur[Daemon] = c
           /\ pc[Daemon] \in AcceptorPcs \cup HandlerPcs

C7_Witness ==
    \E c, d \in Conns :
      /\ conn[c].path = "forkfail" /\ conn[d].path = "forked"
      /\ fd[Daemon][c] = "closed" /\ fd[Daemon][d] = "closed"
      /\ pc[Daemon] = "wait"

\* C8: a worker is only ever in the handler for its own connection, about
\* to exit, or gone; it is never in the wait loop, the acceptor or the
\* event pipeline, it serves no other connection, and when it is about to
\* exit or gone its connection has its one response.
C8_WorkerOneShot ==
    \A w \in Conns :
      /\ pc[w] \in {"none", "h_run", "w_exit", "exited"}
      /\ pc[w] \in {"h_run", "w_exit"} => cur[w] = w /\ caller[w] = "child"
      /\ ev[w] = NoEvent
      /\ \A c \in Conns : c # w => w \notin conn[c].by /\ fd[w][c] # "open"
      /\ pc[w] \in {"w_exit", "exited"} => conn[w].responses = 1
      /\ pc[w] = "exited" => fd[w][w] = "closed"

\* A worker is gone while the daemon, still running, has taken a later
\* connection and an event.
C8_Witness ==
    \E w, c \in Conns :
      /\ w < c
      /\ pc[w] = "exited" /\ conn[w].responses = 1
      /\ conn[c].delivered /\ conn[c].by \subseteq {c}
      /\ nevents > 0 /\ pc[Daemon] = "wait"

\* C9 (Error containment): a step of the daemon from inside the wait loop
\* or one of its handlers leads back into the loop or its handlers, except
\* for a failure of the wait itself; so the daemon terminates only during
\* startup or on a failed wait.
C9_ErrorContainment ==
    [][ pc[Daemon] \in LoopPcs =>
          \/ pc'[Daemon] \in LoopPcs
          \/ pc[Daemon] = "wait" /\ pc'[Daemon] = "fatal" ]_vars

\* The daemon is back in the wait after a refusal, a failed fork and an
\* abandoned event.
C9_Witness ==
    \E c, d \in Conns :
      /\ conn[c].path = "refused" /\ conn[d].path = "forkfail"
      /\ nevents > 0 /\ pc[Daemon] = "wait"

\* C10 (Fatal setup conditions): a daemon whose listening-socket setup
\* yielded no socket is at the fatal exit; a daemon whose event-listener
\* setup failed is at the fatal exit; so a daemon past setup has both.
C10_FatalSetup ==
    /\ sock = "NULL" => pc[Daemon] = "fatal"
    /\ pc[Daemon] \in LoopPcs \cup {"background"} =>
         sock = "SOCK" /\ accept_cb /\ event_cb

\* main returns in this step.
MainReturns == exitcode = <<>> /\ exitcode' # <<>>

\* C11 (Startup exit codes): main returns 1 on an unknown option, a bad
\* debug facility, a failed ni_init, a leftover argument or a failed
\* backgrounding, returns 0 on the debug help, and returns in no other case;
\* a daemon that did not return ends only through a fatal error, and once in
\* the wait loop it leaves the loop only through a fatal error.
C11_StartupExitCodes ==
    [][ /\ MainReturns =>
             \/ /\ pc[Daemon] = "getopt"
                /\ optc' \in {"unknown", "debug_bad"}
                /\ exitcode' = <<1>>
             \/ /\ pc[Daemon] = "getopt"
                /\ optc' = "debug_help"
                /\ exitcode' = <<0>>
             \/ /\ pc[Daemon] \in {"ni_init", "optind"}
                /\ exitcode' = <<1>>
             \/ /\ pc[Daemon] = "background"
                /\ opt_foreground = 0
                /\ exitcode' = <<1>>
        /\ pc[Daemon] = "getopt" /\ optc' \in {"unknown", "debug_bad"} =>
             exitcode' = <<1>>
        /\ pc[Daemon] = "getopt" /\ optc' = "debug_help" =>
             exitcode' = <<0>>
        /\ pc'[Daemon] = "exited" <=> exitcode' # <<>>
        /\ pc[Daemon] \notin Terminal /\ pc'[Daemon] \in Terminal
              /\ ~MainReturns => pc'[Daemon] = "fatal"
        /\ pc[Daemon] \in LoopPcs => pc'[Daemon] \in LoopPcs \cup {"fatal"}
      ]_vars

\* C12 (Run-to-completion), as stated: whenever the daemon is at the wait,
\* no request handling, policy evaluation or event processing is under way
\* in any process, and every connection whose handler was entered has its
\* response.
C12_RunToCompletion ==
    pc[Daemon] = "wait" =>
      /\ \A p \in Procs : pc[p] \notin HandlerPcs \cup PipelinePcs
      /\ \A c \in Conns : conn[c].invoked > 0 => conn[c].responses > 0

\* C12, amended: whenever the daemon is at the wait, nothing is under way
\* in the daemon itself (no connection, request, return value or event
\* document is held), every delivered connection has been decided, and a
\* connection handled inline has its response, written by the daemon; a
\* request handling still under way belongs to a forked worker of isolated
\* mode, and a worker never evaluates events nor returns to the wait.
C12_DaemonRunToCompletion ==
    /\ pc[Daemon] = "wait" =>
         /\ cur[Daemon] = 0 /\ caller[Daemon] = "none"
         /\ req[Daemon] = NoReq /\ aret[Daemon] = <<>>
         /\ ev[Daemon] = NoEvent
         /\ \A c \in Conns :
              /\ conn[c].delivered => conn[c].path # "none"
              /\ conn[c].path = "inline" =>
                   conn[c].responses = 1 /\ conn[c].by = {Daemon}
    /\ \A p \in Procs :
         /\ pc[p] \in HandlerPcs /\ pc[Daemon] = "wait" =>
              p # Daemon /\ opt_nofork = 0 /\ conn[cur[p]].path = "forked"
         /\ p # Daemon =>
              pc[p] \notin PipelinePcs \cup AcceptorPcs \cup {"wait"}

\* The daemon is back at the wait after an event and a forked connection
\* whose worker has not run the handler yet.
C12_Witness ==
    /\ pc[Daemon] = "wait" /\ nevents > 0
    /\ \E c \in Conns : pc[c] = "h_run" /\ conn[c].path = "forked"

\* C13 (Parse-gated dispatch and result propagation): once the handler has
\* parsed a request, the direct call was made once if the parse result is
\* >= 0 and not at all otherwise, and the response carries the parse result
\* when parsing failed and the result of the direct call otherwise.
C13_ParseGatedDispatch ==
    \A p \in Procs :
      /\ req[p].called <= 1
      /\ req[p].parsed > 0 =>
           /\ req[p].called = 1 <=> req[p].parse_rv >= 0
           /\ req[p].printed = 1
           /\ req[p].parse_rv < 0 => req[p].resp_rv = req[p].parse_rv
           /\ req[p].parse_rv >= 0 => req[p].resp_rv = req[p].call_rv

\* One process answered a request that failed to parse while another
\* answered a request whose direct call failed.
C13_Witness ==
    \E p, q \in Procs :
      /\ req[p].parsed > 0 /\ req[p].parse_rv < 0 /\ req[p].called = 0
      /\ req[p].resp_rv = req[p].parse_rv
      /\ req[q].parsed > 0 /\ req[q].called = 1 /\ req[q].call_rv < 0
      /\ req[q].resp_rv = req[q].call_rv

\* The stages of the pipeline in the order the specification gives them.
StageOrder ==
    <<"filter", "build", "serialize", "attach", "match", "apply", "path">>

IsPrefix(a, b) == Len(a) <= Len(b) /\ \A i \in 1 .. Len(a) : a[i] = b[i]

NotFree(x) == x # "free"

\* C14 (Pipeline stage ordering): the stages an event went through, the
\* release aside, are an initial part of filter, build, serialize, attach,
\* match, apply, path; a stage was reached only if the one before it
\* succeeded (known kind, snapshot produced, policy matched, transform
\* succeeded); the transform was applied only after attach and match; the
\* path was derived iff serialization, matching and the transform all
\* succeeded, and it is "/system/interface/" followed by the interface's
\* name.
C14_StageOrdering ==
    \A p \in Procs :
      pc[p] = "ev_ret" =>
        LET e == ev[p]
            run == SelectSeq(e.stages, NotFree)
            has(x) == Count(e.stages, x) > 0
        IN /\ Len(run) >= 1 /\ IsPrefix(run, StageOrder)
           /\ has("build") <=> ~OutsideKnownSet(e.kind)
           /\ has("serialize") <=> has("build")
           /\ has("attach") <=> has("serialize") /\ e.ifnode # "NULL"
           /\ has("match") <=> has("attach")
           /\ has("apply") <=> has("match") /\ e.policy # 0
           /\ has("apply") => e.child /\ e.policy \in 1 .. Len(policies)
           /\ has("path") <=> has("apply") /\ e.ifactions # <<>>
           /\ has("path") <=>
                e.ifnode # "NULL" /\ e.policy # 0 /\ e.ifactions # <<>>
           /\ e.restpath # "" <=> has("path")
           /\ has("path") => e.restpath = "/system/interface/" \o e.ifname

\* An event went through every stage and its path was derived.
C14_Witness ==
    /\ pc[Daemon] = "ev_ret"
    /\ SelectSeq(ev[Daemon].stages, NotFree) = StageOrder
    /\ ev[Daemon].ifname = "eth0"
    /\ ev[Daemon].restpath = "/system/interface/eth0"

\* C15 (Event Document release): when wicked_interface_event returns, a
\* document that was built has been released exactly once, as the last
\* thing the handler did; a snapshot that was produced was attached to the
\* document and is released with it; without a document nothing is
\* released; no document and no snapshot is live.
C15_DocumentRelease ==
    \A p \in Procs :
      pc[p] = "ev_ret" =>
        LET e == ev[p]
            st == e.stages
        IN /\ e.evnode # "live" /\ e.ifnode # "live"
           /\ IF Count(st, "build") > 0
              THEN /\ Count(st, "free") = 1
                   /\ st[Len(st)] = "free"
                   /\ e.evnode = "freed"
                   /\ Count(st, "serialize") = 1
                   /\ e.ifnode = "freed" <=> e.child
                   /\ e.child <=> Count(st, "attach") = 1
                   /\ Count(st, "attach") = 1 =>
                        \E i \in 1 .. Len(st) - 1 :
                          st[i] = "serialize" /\ st[i + 1] = "attach"
              ELSE /\ Count(st, "free") = 0
                   /\ e.evnode = "NULL" /\ e.ifnode = "NULL" /\ ~e.child

\* Every way of abandoning an event releases the document; here the
\* transform failed and document and snapshot went together.
C15_Witness ==
    /\ pc[Daemon] = "ev_ret"
    /\ ev[Daemon].applied # <<>> /\ ev[Daemon].ifactions = <<>>
    /\ ev[Daemon].evnode = "freed" /\ ev[Daemon].ifnode = "freed"
    /\ ev[Daemon].child

\* C16 (Isolation mode): the mode flag does not change once argument
\* parsing is over.  With the flag clear the handler of a connection runs
\* only in the worker forked for it, never in the daemon, and the daemon's
\* acceptor can return whatever the worker is doing.  With the flag set no
\* worker exists, the handler runs only in the daemon, and a connection
\* handled inline has its response by the time the acceptor returns.
C16_IsolationMode ==
    /\ [][pc[Daemon] # "getopt" => opt_nofork' = opt_nofork]_vars
    /\ [](opt_nofork = 0 =>
           /\ pc[Daemon] \notin HandlerPcs
           /\ \A c \in Conns :
                /\ conn[c].by \subseteq {c}
                /\ conn[c].path # "inline"
                /\ conn[c].invoked > 0 =>
                     conn[c].forks = 1 /\ conn[c].path = "forked"
           /\ pc[Daemon] = "a_done" => ENABLED AcceptDone(Daemon)
           /\ pc[Daemon] = "a_ret" => ENABLED AcceptReturn(Daemon))
    /\ [](opt_nofork # 0 =>
           \A c \in Conns :
             /\ pc[c] = "none" /\ conn[c].forks = 0
             /\ conn[c].path # "forked"
             /\ conn[c].by \subseteq {Daemon}
             /\ conn[c].path = "inline" =>
                  \/ pc[Daemon] = "h_run" /\ cur[Daemon] = c
                  \/ conn[c].responses = 1)

\* In isolated mode the daemon has accepted a second connection while the
\* worker of the first has not handled its request yet.
C16_Witness ==
    /\ opt_nofork = 0
    /\ pc[1] = "h_run" /\ conn[1].path = "forked"
    /\ pc[Daemon] = "a_uid" /\ cur[Daemon] = 2

EventStep ==
    /\ pc'[Daemon] # pc[Daemon]
    /\ pc[Daemon] \in PipelinePcs \/ pc'[Daemon] \in PipelinePcs

\* C18 (Frame of event processing): a step of event processing leaves the
\* policy store and the system's interface state as they were, and changes
\* nothing of any connection, request or other process; all it changes is
\* the daemon's own event document with its snapshot (and the count of
\* events delivered).
C18_EventFrame ==
    [][EventStep =>
         /\ policies' = policies
         /\ ifstate' = ifstate
         /\ UNCHANGED <<startupVars, connVars>>
         /\ \A p \in Procs \ {Daemon} : ev'[p] = ev[p] /\ pc'[p] = pc[p]
      ]_vars

\* An event matched a policy, the transform succeeded and the path was
\* derived, after a worker's request had changed the interface state.
C18_Witness ==
    /\ pc[Daemon] = "ev_ret"
    /\ ev[Daemon].restpath # "" /\ ev[Daemon].ifactions # <<>>
    /\ ifstate = 1 /\ policies # <<>>

\* The name the specification's table gives to each known kind.
KindName(kind) ==
    CASE kind = NI_EVENT_LINK_CREATE -> "link-create"
      [] kind = NI_EVENT_LINK_DELETE -> "link-delete"
      [] kind = NI_EVENT_LINK_UP -> "link-up"
      [] kind = NI_EVENT_LINK_DOWN -> "link-down"
      [] kind = NI_EVENT_NETWORK_UP -> "network-up"
      [] kind = NI_EVENT_NETWORK_DOWN -> "network-down"

\* C19 (Event-kind naming): the document built for an event of a known
\* kind is tagged "event" and its type attribute is the kind's name in the
\* table; the table gives every known kind a name, and different kinds
\* different names.
C19_KindNaming ==
    /\ \A p \in Procs :
         pc[p] = "ev_ret" /\ ~OutsideKnownSet(ev[p].kind) =>
           /\ ev[p].evtag = "event"
           /\ ev[p].evattr = KindName(ev[p].kind)
    /\ \A k \in EventKinds :
         ~OutsideKnownSet(k) => EvTypeAt(k) \notin {"", "?"}
    /\ \A j, k \in EventKinds :
         ~OutsideKnownSet(j) /\ ~OutsideKnownSet(k) /\ j # k =>
           EvTypeAt(j) # EvTypeAt(k)

\* The document of a network-down event has been built and named.
C19_Witness ==
    /\ pc[Daemon] = "ev_ret"
    /\ ev[Daemon].kind = NI_EVENT_NETWORK_DOWN
    /\ ev[Daemon].evtag = "event"
    /\ ev[Daemon].evattr = "network-down"

====
